---- MODULE Spec2Model ----
(***************************************************************************)
(* Model of the PiCaS actor run loop (picas/actors.py): AbstractRunActor   *)
(* and RunActor, their per-task cycle _run, the conflict-retrying save     *)
(* loop, the stop rules of RunActor.run and the SIGTERM/SIGINT handler.    *)
(*                                                                         *)
(* The main flow is a program counter pc over the statements of run/_run.  *)
(* The signal handler runs in the same (main) thread, on top of the        *)
(* interrupted statement: while it runs (hpc # "idle") the main flow is    *)
(* suspended, and an exception leaving the handler (ResourceConflict or    *)
(* another store error from its db.save, SystemExit from exit(0)) is       *)
(* raised at the interrupted statement and unwinds through the try blocks  *)
(* that enclose it.                                                        *)
(*                                                                         *)
(* Spec: one call of run() over a finite view, with signals, other writers *)
(* and store errors.  FairSpec: the runs without a signal, over a finite   *)
(* view or an EndlessViewIterator, with the main flow making progress.     *)
(* RepeatSpec: the runs without a signal in which run() is called again.   *)
(***************************************************************************)
EXTENDS Integers, Sequences, FiniteSets, TLC

\* ---------------------------------------------------------------- bounds
NTasks == 2          \* the view holds at most this many tasks when run() is called
MaxClock == 2        \* the wall clock runs from 0 to this value
MaxOtherWrites == 2  \* writes by other writers to a task while the worker holds it
MaxSignals == 1      \* termination signals delivered to the process
MaxRuns == 2         \* calls of run() on one actor object

\* ------------------------------------------------------------- constants
None == 0                 \* current_task = None / no task claimed yet
NoReset == <<>>           \* token_reset_values = None
DefaultReset == <<0, 0>>  \* token_reset_values default [0, 0]
NoMaxTime == -1           \* max_time = None
Unset == "unset"          \* an attribute of the iterator that run() has not assigned

VARIABLES
    cfg,    \* constructor and run() arguments: variant ("Abstract" | "RunActor": whose
            \* run() is called), token_reset_values, srcLen (tasks the iterator yields),
            \* max_time, avg_time_factor, max_tasks, stop_function, endless (the
            \* iterator is an EndlessViewIterator)
    self,   \* the actor object: current_task, subprocess, tasks_processed, time (Timer.t)
    ctl,    \* control state: pc (statement of run/_run the main flow is at), exc (the
            \* exception unwinding through run), hpc (statement of handler()),
            \* handlerInstalled, task (the loop variable), pos (tasks pulled so far),
            \* stop_callback and stop_callback_args (attributes of the iterator)
    tdoc,   \* the in-memory Task object held in `task`
    store,  \* the CouchDB document of the task held in `task`: the worker reads and
            \* writes no other document
    env,    \* now (wall clock), otherWrites (to the task held), nSignals
    hist    \* history of the run, read by the properties only:
            \*   raised: the last process_task call ended with an Exception
            \*   nSave, nGet, nConf: db.save calls, db.get calls and ResourceConflicts
            \*     of this cycle's save loop
            \*   saved: the last document this worker persisted for `task`
            \*   hSaves, hWrote: db.save calls of the handler; it wrote lock/done
            \*   hAt, hCur: pc and current_task when the signal was handled
            \*   terminated, killed: subprocess.terminate() / kill() were called
            \*   exitCalled: the handler reached exit(0)
            \*   runs: calls of run() so far
            \*   prepareEnvCalls, cleanupEnvCalls: hook invocations in this call of run()
            \*   cleanupRunCalls: cleanup_run invocations
            \*   cycles: _run calls started, stopEvals: evaluations of the stop rules,
            \*     in this call of run()
            \*   lastFn: what stop_function returned at the last evaluation
            \*   fatalAt: snapshot taken when a store error left the save loop
            \*   sourceStopped: the iterator ended because its stop callback held

vars == <<cfg, self, ctl, tdoc, store, env, hist>>

variant == cfg.variant
token_reset_values == cfg.token_reset_values
max_time == cfg.max_time
avg_time_factor == cfg.avg_time_factor
max_tasks == cfg.max_tasks
stop_function == cfg.stop_function
pc == ctl.pc
hpc == ctl.hpc
task == ctl.task
current_task == self.current_task
tasks_processed == self.tasks_processed
subprocess == self.subprocess

NoDoc == [rev |-> 0, lock |-> 0, done |-> 0, out |-> "none", err |-> 0]
NoFatal == [tp |-> -1, cr |-> -1, pos |-> -1, ns |-> -1, ng |-> -1]

\* The history when run() is called for the first time.
NoHistory ==
    [raised |-> FALSE, nSave |-> 0, nGet |-> 0, nConf |-> 0, saved |-> NoDoc,
     hSaves |-> 0, hWrote |-> FALSE, hAt |-> "none", hCur |-> None,
     killed |-> FALSE, terminated |-> FALSE, exitCalled |-> FALSE,
     prepareEnvCalls |-> 0, cleanupEnvCalls |-> 0, cleanupRunCalls |-> 0,
     cycles |-> 0, stopEvals |-> 0, lastFn |-> FALSE, fatalAt |-> NoFatal,
     sourceStopped |-> FALSE, runs |-> 1]

\* A task document as the view holds it before it is claimed.
TodoDoc == [rev |-> 1, lock |-> 0, done |-> 0, out |-> "none", err |-> 0]

\* History at the start of a task cycle.
NewCycle(h) == [h EXCEPT !.nSave = 0, !.nGet = 0, !.nConf = 0,
                         !.saved = NoDoc, !.cycles = @ + 1]

\* ------------------------------------------------------- the document store
\* db.save(doc) succeeds when doc carries the store's current revision; the
\* store then holds doc's fields under a new revision, which is written back
\* into the in-memory doc.  Otherwise it raises ResourceConflict.
SaveAccepted(d) == d.rev = store.rev

Stored(d) == [d EXCEPT !.rev = d.rev + 1]

\* The iterator claims a task before it yields it: lock is set in the store.
Claimed(d) == [d EXCEPT !.rev = d.rev + 1, !.lock = 1]

\* A write by another writer (e.g. monitoring) to the task this worker holds.
\* Such a write commutes with every step of the worker that does not call the
\* store, so it is taken only right before the worker's next db.save/db.get:
\* in the save loop of _run, or before the handler's save.  A write to a
\* document whose revision the worker already lacks changes nothing the
\* worker can observe, and is left out.
OtherWrite ==
    /\ task # None
    /\ store.rev = tdoc.rev
    /\ \/ hpc = "idle" /\ pc = "save"
       \/ hpc = "h_reset" /\ current_task # None
    /\ env.otherWrites < MaxOtherWrites
    /\ store' = [store EXCEPT !.rev = @ + 1, !.out = "other"]
    /\ env' = [env EXCEPT !.otherWrites = @ + 1]
    /\ UNCHANGED <<cfg, self, ctl, tdoc, hist>>

\* Time passes while a task is being processed.  The clock is read by the
\* max_time rule only, so it is advanced only in runs that supply max_time.
Tick ==
    /\ pc = "process" /\ max_time # NoMaxTime
    /\ env.now < MaxClock
    /\ env' = [env EXCEPT !.now = @ + 1]
    /\ UNCHANGED <<cfg, self, ctl, tdoc, store, hist>>

\* Timer.elapsed()
elapsed == env.now - self.time

\* ------------------------------------------------------------ exceptions
IsException(kind) == kind \in {"Conflict", "Other"}   \* subclasses of Exception

Terminal(kind) == IF kind = "SystemExit" THEN "exited" ELSE "raised"

\* Statements of run() that lie inside its try block.
InTry == {"for", "prepare_run", "set_current", "process", "annotate", "save", "get",
          "cleanup_run", "stop", "clear"}

\* Where an exception of `kind` raised at statement p ends up: the except
\* clauses of _run, else the finally of run, else the caller of run.
Unwind(p, kind) ==
    IF p = "process" /\ IsException(kind) THEN "annotate"
    ELSE IF p = "save" /\ kind = "Conflict" THEN "get"
    ELSE IF p \in InTry THEN "finally"
    ELSE Terminal(kind)

\* The control state after an exception of `kind` is raised at the statement
\* the main flow is at.
Raise(c, kind) ==
    [c EXCEPT !.pc = Unwind(c.pc, kind),
              !.exc = IF Unwind(c.pc, kind) \in {"annotate", "get"} THEN c.exc ELSE kind]

\* ------------------------------------------------------------------ run()
Idle == hpc = "idle"

\* setup_handler(): the signals self.handler is registered for
Installed_TermOnly == {"SIGTERM"}
Installed == {"SIGTERM", "SIGINT"}

\* AbstractRunActor.run() is called.
RunAbstract ==
    /\ Idle /\ pc = "init" /\ variant = "Abstract"
    /\ ctl' = [ctl EXCEPT !.pc = "a_setup"]
    /\ UNCHANGED <<cfg, self, tdoc, store, env, hist>>

\* setup_handler(); self.time = Timer()
SetupHandlerAbstract ==
    /\ Idle /\ pc = "a_setup"
    /\ ctl' = [ctl EXCEPT !.pc = "a_prepare_env", !.handlerInstalled = Installed]
    /\ self' = [self EXCEPT !.time = env.now]
    /\ UNCHANGED <<cfg, tdoc, store, env, hist>>

\* prepare_env(), then the try block is entered
PrepareEnvAbstract ==
    /\ Idle /\ pc = "a_prepare_env"
    /\ hist' = [hist EXCEPT !.prepareEnvCalls = @ + 1]
    /\ ctl' = [ctl EXCEPT !.pc = "for"]
    /\ UNCHANGED <<cfg, self, tdoc, store, env>>

\* RunActor.run(max_time, avg_time_factor, max_tasks, stop_function) is
\* called; self.time = Timer()
RunActorRun ==
    /\ Idle /\ pc = "init" /\ variant = "RunActor"
    /\ \E mt \in {NoMaxTime, MaxClock - 1}, af \in {0, 1}, mk \in 0..NTasks,
          sf \in {"None", "fn"} :
          /\ mt = NoMaxTime => af = 0   \* avg_time_factor is read under max_time only
          /\ cfg' = [cfg EXCEPT !.max_time = mt, !.avg_time_factor = af,
                             !.max_tasks = mk, !.stop_function = sf]
    /\ self' = [self EXCEPT !.time = env.now]
    /\ ctl' = [ctl EXCEPT !.pc = "r_prepare_env"]
    /\ UNCHANGED <<tdoc, store, env, hist>>

\* RunActor.run(max_tasks=...) is called again on the same actor object after
\* the previous call returned; the view holds NTasks tasks by then.  The loop
\* variable of the previous call is gone, and the history starts anew, but
\* for the calls and the cycles counted.
RunActorRunAgain ==
    /\ Idle /\ pc = "returned" /\ variant = "RunActor" /\ hist.runs < MaxRuns
    /\ \E mk \in 0..NTasks :
          cfg' = [cfg EXCEPT !.max_tasks = mk, !.srcLen = ctl.pos + NTasks]
    /\ self' = [self EXCEPT !.time = env.now]
    /\ ctl' = [ctl EXCEPT !.pc = "r_prepare_env", !.task = None]
    /\ tdoc' = NoDoc
    /\ store' = TodoDoc
    /\ hist' = [NoHistory EXCEPT !.runs = hist.runs + 1,
                                 !.cleanupRunCalls = hist.cleanupRunCalls]
    /\ UNCHANGED env

PrepareEnvRunActor ==
    /\ Idle /\ pc = "r_prepare_env"
    /\ hist' = [hist EXCEPT !.prepareEnvCalls = @ + 1]
    /\ ctl' = [ctl EXCEPT !.pc = "r_setup"]
    /\ UNCHANGED <<cfg, self, tdoc, store, env>>

\* setup_handler()
SetupHandlerRunActor ==
    /\ Idle /\ pc = "r_setup"
    /\ ctl' = [ctl EXCEPT !.pc = "r_register", !.handlerInstalled = Installed]
    /\ UNCHANGED <<cfg, self, tdoc, store, env, hist>>

\* if isinstance(self.iterator, EndlessViewIterator): the value the iterator's
\* attribute `old` gets from the argument `new` of run
Registered_Never(old, new) == old
Registered(old, new) == IF cfg.endless THEN new ELSE old

\* self.iterator.stop_callback = stop_function;
\* self.iterator.stop_callback_args = stop_function_args; then the try block
\* is entered
RegisterStop ==
    /\ Idle /\ pc = "r_register"
    /\ ctl' = [ctl EXCEPT !.pc = "for",
                          !.stop_callback = Registered(@, stop_function),
                          !.stop_callback_args = Registered(@, "stop_function_args")]
    /\ UNCHANGED <<cfg, self, tdoc, store, env, hist>>

\* `for task in self.iterator`: the next task is claimed and yielded, or the
\* iterator is exhausted and the loop ends.
ForNext ==
    /\ Idle /\ pc = "for" /\ ctl.pos < cfg.srcLen
    /\ LET id == ctl.pos + 1 IN
         /\ store' = Claimed(TodoDoc)
         /\ tdoc' = Claimed(TodoDoc)
         /\ ctl' = [ctl EXCEPT !.pc = "prepare_run", !.task = id, !.pos = id]
    /\ hist' = NewCycle(hist)
    /\ env' = [env EXCEPT !.otherWrites = 0]
    /\ UNCHANGED <<cfg, self>>

\* A finite view has no task left: StopIteration.  (An endless iterator
\* waits for tasks instead.)
ForExhausted ==
    /\ Idle /\ pc = "for" /\ ~cfg.endless /\ ctl.pos >= cfg.srcLen
    /\ ctl' = [ctl EXCEPT !.pc = "finally"]
    /\ UNCHANGED <<cfg, self, tdoc, store, env, hist>>

\* An endless iterator consults its stop callback before it produces the next
\* element; the callback returned true: StopIteration.
ForStopped ==
    /\ Idle /\ pc = "for" /\ cfg.endless /\ ctl.stop_callback = "fn"
    /\ ctl' = [ctl EXCEPT !.pc = "finally"]
    /\ hist' = [hist EXCEPT !.sourceStopped = TRUE]
    /\ UNCHANGED <<cfg, self, tdoc, store, env>>

\* ----------------------------------------------------------------- _run()
PrepareRun ==
    /\ Idle /\ pc = "prepare_run"
    /\ ctl' = [ctl EXCEPT !.pc = "set_current"]
    /\ UNCHANGED <<cfg, self, tdoc, store, env, hist>>

\* process_task(task) is entered with current_task left as it was.
SetCurrent_Skipped ==
    /\ Idle /\ pc = "set_current"
    /\ ctl' = [ctl EXCEPT !.pc = "process"]
    /\ UNCHANGED <<cfg, self, tdoc, store, env, hist>>

\* self.current_task = task
SetCurrent ==
    /\ Idle /\ pc = "set_current"
    /\ self' = [self EXCEPT !.current_task = task]
    /\ ctl' = [ctl EXCEPT !.pc = "process"]
    /\ UNCHANGED <<cfg, tdoc, store, env, hist>>

\* process_task(task) starts an external process and tracks it.
ProcessStartSub ==
    /\ Idle /\ pc = "process" /\ subprocess = "none"
    /\ self' = [self EXCEPT !.subprocess = "running"]
    /\ UNCHANGED <<cfg, ctl, tdoc, store, env, hist>>

\* The tracked process exits by itself.
SubExit ==
    /\ subprocess = "running"
    /\ self' = [self EXCEPT !.subprocess = "exited"]
    /\ UNCHANGED <<cfg, ctl, tdoc, store, env, hist>>

\* The statement after the try/except around process_task(task).
AfterProcess_NoAnnotate(ok) == "save"
AfterProcess(ok) == IF ok THEN "save" ELSE "annotate"

\* process_task(task) returns: the worker's result is on the task.
ProcessReturn ==
    /\ Idle /\ pc = "process" /\ subprocess # "running"
    /\ tdoc' = [tdoc EXCEPT !.out = "worker", !.done = 1]
    /\ self' = [self EXCEPT !.subprocess = "none"]
    /\ ctl' = [ctl EXCEPT !.pc = AfterProcess(TRUE)]
    /\ hist' = [hist EXCEPT !.raised = FALSE]
    /\ UNCHANGED <<cfg, store, env>>

\* process_task(task) raises an Exception.
ProcessRaise ==
    /\ Idle /\ pc = "process" /\ subprocess # "running"
    /\ self' = [self EXCEPT !.subprocess = "none"]
    /\ ctl' = [ctl EXCEPT !.pc = AfterProcess(FALSE)]
    /\ hist' = [hist EXCEPT !.raised = TRUE]
    /\ UNCHANGED <<cfg, tdoc, store, env>>

\* task.error(msg, exception=ex): the error annotation is put on the task.
TaskError(d) == [d EXCEPT !.err = 1]

\* except Exception: task.error(msg, exception=ex)
Annotate ==
    /\ Idle /\ pc = "annotate"
    /\ tdoc' = TaskError(tdoc)
    /\ ctl' = [ctl EXCEPT !.pc = "save"]
    /\ UNCHANGED <<cfg, self, store, env, hist>>

\* History taken when a store error leaves the save loop; ns, ng: calls made so far.
Snapshot(ns, ng) == [tp |-> tasks_processed, cr |-> hist.cleanupRunCalls, pos |-> ctl.pos,
                     ns |-> ns, ng |-> ng]

\* try: self.db.save(task); break
SaveOk ==
    /\ Idle /\ pc = "save" /\ SaveAccepted(tdoc)
    /\ store' = Stored(tdoc)
    /\ tdoc' = Stored(tdoc)
    /\ hist' = [hist EXCEPT !.nSave = @ + 1, !.saved = Stored(tdoc)]
    /\ ctl' = [ctl EXCEPT !.pc = "cleanup_run"]
    /\ UNCHANGED <<cfg, self, env>>

\* db.save raises ResourceConflict inside `try: ... except ResourceConflict:`
OnConflict_Break(c) == [c EXCEPT !.pc = "cleanup_run"]
OnConflict(c) == Raise(c, "Conflict")

\* except ResourceConflict:
SaveConflict ==
    /\ Idle /\ pc = "save" /\ ~SaveAccepted(tdoc)
    /\ hist' = [hist EXCEPT !.nSave = @ + 1, !.nConf = @ + 1]
    /\ ctl' = OnConflict(ctl)
    /\ UNCHANGED <<cfg, self, tdoc, store, env>>

\* db.save raises a store error that is no ResourceConflict.
SaveError_Retry(c) == [c EXCEPT !.pc = "get"]
SaveError(c) == Raise(c, "Other")

SaveFatal ==
    /\ Idle /\ pc = "save"
    /\ hist' = [hist EXCEPT !.nSave = @ + 1, !.fatalAt = Snapshot(hist.nSave + 1, hist.nGet)]
    /\ ctl' = SaveError(ctl)
    /\ UNCHANGED <<cfg, self, tdoc, store, env>>

\* new_task = self.db.get(task.id); task['_rev'] = new_task.rev
RefetchRev_Merge(d, new) == new
RefetchRev(d, new) == [d EXCEPT !.rev = new.rev]

GetOk ==
    /\ Idle /\ pc = "get"
    /\ tdoc' = RefetchRev(tdoc, store)
    /\ hist' = [hist EXCEPT !.nGet = @ + 1]
    /\ ctl' = [ctl EXCEPT !.pc = "save"]
    /\ UNCHANGED <<cfg, self, store, env>>

GetFatal ==
    /\ Idle /\ pc = "get"
    /\ hist' = [hist EXCEPT !.nGet = @ + 1, !.fatalAt = Snapshot(hist.nSave, hist.nGet + 1)]
    /\ ctl' = Raise(ctl, "Other")
    /\ UNCHANGED <<cfg, self, tdoc, store, env>>

\* self.tasks_processed += 1
Incremented_Skip(n) == n
Incremented(n) == n + 1

\* self.cleanup_run(); self.tasks_processed += 1
CleanupRun ==
    /\ Idle /\ pc = "cleanup_run"
    /\ hist' = [hist EXCEPT !.cleanupRunCalls = @ + 1]
    /\ self' = [self EXCEPT !.tasks_processed = Incremented(@)]
    /\ ctl' = [ctl EXCEPT !.pc = IF variant = "Abstract" THEN "clear" ELSE "stop"]
    /\ UNCHANGED <<cfg, tdoc, store, env>>

\* ------------------------------------------------- stop rules of RunActor.run
MaxTasksReached_OffByOne == max_tasks # 0 /\ tasks_processed + 1 = max_tasks
MaxTasksReached == max_tasks # 0 /\ tasks_processed = max_tasks

TimeExceeded_GreaterEqual(el) == max_time # NoMaxTime /\ el + avg_time_factor >= max_time
TimeExceeded(el) == max_time # NoMaxTime /\ el + avg_time_factor > max_time

\* fn: what stop_function(**stop_function_args) returned, FALSE if none is supplied
ShouldStop_IgnoreFn(fn) == MaxTasksReached \/ TimeExceeded(elapsed)
ShouldStop(fn) == fn \/ MaxTasksReached \/ TimeExceeded(elapsed)

StopRules ==
    /\ Idle /\ pc = "stop"
    /\ \E fn \in BOOLEAN :
         /\ stop_function = "None" => fn = FALSE
         /\ ctl' = [ctl EXCEPT !.pc = IF ShouldStop(fn) THEN "finally" ELSE "clear"]
         /\ hist' = [hist EXCEPT !.stopEvals = @ + 1,
                                 !.lastFn = fn]
    /\ UNCHANGED <<cfg, self, tdoc, store, env>>

\* self.current_task = None
ClearCurrent ==
    /\ Idle /\ pc = "clear"
    /\ self' = [self EXCEPT !.current_task = None]
    /\ ctl' = [ctl EXCEPT !.pc = "for"]
    /\ UNCHANGED <<cfg, tdoc, store, env, hist>>

\* finally: self.cleanup_env(); run returns, or the exception goes on to the caller
Finally ==
    /\ Idle /\ pc = "finally"
    /\ hist' = [hist EXCEPT !.cleanupEnvCalls = @ + 1]
    /\ ctl' = [ctl EXCEPT !.pc = IF ctl.exc = "none" THEN "returned" ELSE Terminal(ctl.exc)]
    /\ UNCHANGED <<cfg, self, tdoc, store, env>>

\* ---------------------------------------------------------------- handler()
\* SIGTERM or SIGINT is delivered: the handler starts on top of the statement
\* the main flow is at.
Signal ==
    /\ Idle /\ \E sig \in {"SIGTERM", "SIGINT"} : sig \in ctl.handlerInstalled
    /\ pc \notin {"raised", "exited"} /\ ~hist.exitCalled
    /\ env.nSignals < MaxSignals
    /\ env' = [env EXCEPT !.nSignals = @ + 1]
    /\ ctl' = [ctl EXCEPT !.hpc = "h_sub"]
    /\ hist' = [hist EXCEPT !.hAt = pc, !.hCur = current_task]
    /\ UNCHANGED <<cfg, self, tdoc, store>>

\* if self.subprocess and self.subprocess.poll() is None: terminate()
HandlerSubprocess ==
    /\ hpc = "h_sub"
    /\ IF subprocess = "running"
       THEN /\ hist' = [hist EXCEPT !.terminated = TRUE]
            /\ ctl' = [ctl EXCEPT !.hpc = "h_wait"]
       ELSE /\ ctl' = [ctl EXCEPT !.hpc = "h_reset"]
            /\ UNCHANGED hist
    /\ UNCHANGED <<cfg, self, tdoc, store, env>>

\* The statement after communicate(timeout=30) for a tracked process in state
\* s: the except clause when the wait timed out.
AfterWait_NoKill(s) == "h_reset"
AfterWait(s) == IF s = "running" THEN "h_kill" ELSE "h_reset"

\* try: communicate(timeout=30) returns when the process has exited, raises
\* TimeoutExpired when it has not
HandlerWait ==
    /\ hpc = "h_wait"
    /\ ctl' = [ctl EXCEPT !.hpc = AfterWait(subprocess)]
    /\ UNCHANGED <<cfg, self, tdoc, store, env, hist>>

\* except subprocess.TimeoutExpired: kill(); communicate()
HandlerKill ==
    /\ hpc = "h_kill"
    /\ self' = [self EXCEPT !.subprocess = "exited"]
    /\ hist' = [hist EXCEPT !.killed = TRUE]
    /\ ctl' = [ctl EXCEPT !.hpc = "h_reset"]
    /\ UNCHANGED <<cfg, tdoc, store, env>>

\* if self.current_task and self.token_reset_values is not None:
HandlerWrites == current_task # None /\ token_reset_values # NoReset

HandlerSaves_Always == current_task # None
HandlerSaves == HandlerWrites

\* current_task['lock'] = token_reset_values[0]; current_task['done'] = token_reset_values[1]
ResetDoc(d) == IF HandlerWrites
               THEN [d EXCEPT !.lock = token_reset_values[1], !.done = token_reset_values[2]]
               ELSE d

\* The handler's db.save raised `kind` at the statement the main flow is at.
HandlerRaise(kind) ==
    /\ ctl' = Raise([ctl EXCEPT !.hpc = "idle"], kind)
    /\ hist' = [hist EXCEPT !.hSaves = @ + 1,
                            !.hWrote = @ \/ HandlerWrites,
                            !.raised = @ \/ Unwind(pc, kind) = "annotate",
                            !.nSave = IF Unwind(pc, kind) = "get" THEN @ + 1 ELSE @,
                            !.nConf = IF Unwind(pc, kind) = "get" THEN @ + 1 ELSE @]

\* the token reset, and its single db.save(self.current_task)
HandlerReset ==
    /\ hpc = "h_reset"
    /\ IF HandlerSaves
       THEN /\ \/ /\ SaveAccepted(ResetDoc(tdoc))
                  /\ store' = Stored(ResetDoc(tdoc))
                  /\ tdoc' = Stored(ResetDoc(tdoc))
                  /\ hist' = [hist EXCEPT !.hSaves = @ + 1, !.hWrote = @ \/ HandlerWrites,
                                          !.saved = Stored(ResetDoc(tdoc))]
                  /\ ctl' = [ctl EXCEPT !.hpc = "h_cleanup"]
               \/ /\ ~SaveAccepted(ResetDoc(tdoc))
                  /\ tdoc' = ResetDoc(tdoc)
                  /\ HandlerRaise("Conflict")
                  /\ UNCHANGED store
               \/ /\ tdoc' = ResetDoc(tdoc)
                  /\ HandlerRaise("Other")
                  /\ UNCHANGED store
       ELSE /\ ctl' = [ctl EXCEPT !.hpc = "h_cleanup"]
            /\ UNCHANGED <<tdoc, store, hist>>
    /\ UNCHANGED <<cfg, self, env>>

\* self.cleanup_env(); exit(0): SystemExit is raised at the statement the main
\* flow is at
HandlerCleanupExit ==
    /\ hpc = "h_cleanup"
    /\ hist' = [hist EXCEPT !.cleanupEnvCalls = @ + 1, !.exitCalled = TRUE]
    /\ ctl' = Raise([ctl EXCEPT !.hpc = "idle"], "SystemExit")
    /\ UNCHANGED <<cfg, self, tdoc, store, env>>

\* ------------------------------------------------------------ specification
\* The state after construction, the iterator being of one of `kinds`.
InitWith(kinds) ==
    /\ cfg \in [variant : {"Abstract", "RunActor"},
                token_reset_values : {NoReset, DefaultReset},
                srcLen : 0..NTasks,
                max_time : {NoMaxTime}, avg_time_factor : {0}, max_tasks : {0},
                stop_function : {"None"}, endless : kinds]
    /\ self = [current_task |-> None, subprocess |-> "none", tasks_processed |-> 0, time |-> 0]
    /\ ctl = [pc |-> "init", exc |-> "none", hpc |-> "idle", handlerInstalled |-> {},
              task |-> None, pos |-> 0, stop_callback |-> Unset, stop_callback_args |-> Unset]
    /\ tdoc = NoDoc
    /\ store = TodoDoc
    /\ env = [now |-> 0, otherWrites |-> 0, nSignals |-> 0]
    /\ hist = NoHistory

\* The actor iterates over a finite view.
Init == InitWith({FALSE})

Next ==
    \/ RunAbstract \/ SetupHandlerAbstract \/ PrepareEnvAbstract
    \/ RunActorRun \/ PrepareEnvRunActor \/ SetupHandlerRunActor \/ RegisterStop
    \/ ForNext \/ ForExhausted
    \/ PrepareRun \/ SetCurrent
    \/ ProcessStartSub \/ SubExit \/ ProcessReturn \/ ProcessRaise \/ Annotate
    \/ SaveOk \/ SaveConflict \/ SaveFatal \/ GetOk \/ GetFatal
    \/ CleanupRun \/ StopRules \/ ClearCurrent \/ Finally
    \/ Signal \/ HandlerSubprocess \/ HandlerWait \/ HandlerKill
    \/ HandlerReset \/ HandlerCleanupExit
    \/ OtherWrite \/ Tick

Spec == Init /\ [][Next]_vars

\* The statements of the main flow: the interpreter executes the next one as
\* long as there is one, and each call of the store returns or raises.
MainFlow ==
    \/ RunAbstract \/ SetupHandlerAbstract \/ PrepareEnvAbstract
    \/ RunActorRun \/ PrepareEnvRunActor \/ SetupHandlerRunActor \/ RegisterStop
    \/ ForNext \/ ForExhausted
    \/ PrepareRun \/ SetCurrent
    \/ ProcessReturn \/ ProcessRaise \/ Annotate
    \/ SaveOk \/ SaveConflict \/ SaveFatal \/ GetOk \/ GetFatal
    \/ CleanupRun \/ StopRules \/ ClearCurrent \/ Finally

\* The runs in which no signal is delivered: the main flow, the stop callback
\* of an endless iterator, the tracked process, the other writers of the store
\* and the clock.
QuietNext == MainFlow \/ ForStopped \/ ProcessStartSub \/ SubExit \/ OtherWrite \/ Tick

\* The actor iterates over a finite view or over an EndlessViewIterator.
InitQuiet == InitWith(BOOLEAN)

\* The quiet runs with the interpreter making progress; the stop callback,
\* the other writers, the clock and the tracked process are under no
\* obligation to act.
FairSpec == InitQuiet /\ [][QuietNext]_vars /\ WF_vars(MainFlow)

\* The quiet runs of an actor object whose run() the caller calls up to
\* MaxRuns times, each call after the one before has returned.
RepeatNext == QuietNext \/ RunActorRunAgain

RepeatSpec == InitQuiet /\ [][RepeatNext]_vars

\* ------------------------------------------------------------------ claims
InCycleAfterProcess == pc \in {"save", "get", "cleanup_run"}

\* C1: an Exception raised by the process_task call never leaves the cycle:
\* once the cycle is past the try/except, the task carries an error annotation
\* exactly when the call raised; when the save loop is left, db.save has been
\* attempted and the persisted task carries the annotation exactly when the
\* call raised; and the only exceptions that unwind through run come from the
\* store, never from process_task.
C1_ProcessErrorContained ==
    /\ InCycleAfterProcess => ((tdoc.err = 1) <=> hist.raised)
    /\ pc = "cleanup_run" =>
         /\ hist.nSave >= 1
         /\ hist.saved # NoDoc
         /\ (hist.saved.err = 1) <=> hist.raised
    /\ ctl.exc \in {"Conflict", "Other"} => (hist.fatalAt # NoFatal \/ hist.hSaves > 0)

\* A second task is being processed after the process_task call of the first raised.
C1_Witness ==
    /\ hist.cycles = 2 /\ pc = "process" /\ hist.raised /\ hist.hAt = "none"

\* C2: in the save loop every ResourceConflict is followed by one db.get and
\* one further db.save (attempts = conflicts + 1, gets = conflicts when the
\* loop is left), and the document persisted carries the worker's values of
\* the fields other than _rev, not the other writer's.
C2_ConflictRetry ==
    /\ pc = "save" => hist.nSave = hist.nConf /\ hist.nGet = hist.nConf
    /\ pc = "get" => hist.nSave = hist.nConf /\ hist.nGet + 1 = hist.nConf
    /\ pc = "cleanup_run" =>
         /\ hist.nSave = hist.nConf + 1
         /\ hist.nGet = hist.nConf
         /\ hist.saved = tdoc
         /\ hist.saved.out = (IF hist.raised THEN "none" ELSE "worker")
         /\ hist.saved.err = (IF hist.raised THEN 1 ELSE 0)

\* The save loop was left after two conflicts with another writer's writes.
C2_Witness ==
    /\ pc = "cleanup_run" /\ hist.nConf = 2 /\ hist.nSave = 3 /\ hist.hAt = "none"
    /\ hist.saved.out = "worker"

ProcessEnded == pc \in {"exited", "raised"}

\* C3: when the signal was handled with current_task set and token reset
\* enabled, during process_task, the save loop or cleanup_run, the last state
\* of the task this worker persisted when the process has ended carries the
\* reset pair.  (Stated for runs in which the store raises no error other
\* than ResourceConflict, and in which the worker persisted the task.)
C3_ResetPersisted ==
    ( /\ ProcessEnded
      /\ hist.hCur # None /\ token_reset_values # NoReset
      /\ hist.hAt \in {"process", "save", "get", "cleanup_run"}
      /\ hist.fatalAt = NoFatal /\ ctl.exc \in {"Conflict", "SystemExit"}
      /\ hist.saved # NoDoc )
    => /\ hist.saved.lock = token_reset_values[1]
       /\ hist.saved.done = token_reset_values[2]

\* C4: a signal that arrives between task cycles (while the stop rules are
\* evaluated, while the next task is pulled, after run has returned) makes
\* the handler write no field of a task and call db.save on no task.
C4_NoTouchBetweenCycles ==
    hist.hAt \in {"stop", "for", "returned"} => (~hist.hWrote /\ hist.hSaves = 0)

\* C5: with token_reset_values = None the handler never calls db.save and
\* never writes lock or done.
C5_DisabledResetNoSave ==
    token_reset_values = NoReset => (hist.hSaves = 0 /\ ~hist.hWrote)

\* The handler is past its reset step with current_task set and the reset disabled.
C5_Witness ==
    token_reset_values = NoReset /\ hpc = "h_cleanup" /\ current_task # None

Min(a, b) == IF a < b THEN a ELSE b

OnlyMaxTasks == variant = "RunActor" /\ max_tasks > 0 /\ max_time = NoMaxTime
                /\ stop_function = "None"

\* C6: RunActor.run with max_tasks = n > 0 and no other stop criterion has
\* executed, when it returns, exactly n cycles on a source of at least n
\* tasks and exactly m cycles on a source of m < n tasks.
C6_MaxTasksCycles ==
    (pc = "returned" /\ OnlyMaxTasks) => hist.cycles = Min(max_tasks, cfg.srcLen)

\* run(max_tasks = 1) has returned after one cycle on a source of two tasks.
C6_Witness ==
    pc = "returned" /\ OnlyMaxTasks /\ max_tasks = 1 /\ cfg.srcLen = NTasks /\ hist.cycles = 1

\* The step that evaluates the stop rules after a completed cycle.
StopStep == pc = "stop" /\ hpc = "idle" /\ ctl'.hpc = "idle" /\ ctl'.pc # "stop"

\* C7: with max_time set, the evaluation after a cycle ends the loop when
\* elapsed + avg_time_factor > max_time, and when neither of the other two
\* rules holds it ends the loop only then.
C7_MaxTimeRule ==
    [][ (StopStep /\ max_time # NoMaxTime) =>
          /\ (elapsed + avg_time_factor > max_time) => ctl'.pc = "finally"
          /\ (ctl'.pc = "finally" /\ ~hist'.lastFn
                /\ ~(max_tasks # 0 /\ tasks_processed = max_tasks))
             => elapsed + avg_time_factor > max_time ]_vars

\* The loop continues at the boundary elapsed + avg_time_factor = max_time.
C7_Witness ==
    /\ pc = "clear" /\ variant = "RunActor" /\ max_time # NoMaxTime /\ avg_time_factor = 1
    /\ elapsed + avg_time_factor = max_time
    /\ hist.stopEvals = hist.cycles

\* C8: the stop rules are evaluated once after each completed cycle (the task
\* persisted, cleanup_run run, tasks_processed incremented) and at no other
\* point; the loop ends when any of the three rules is true and goes on to
\* the next task otherwise; and the loop of RunActor.run ends without an
\* exception only when the source is exhausted or a rule is true.
C8_StopPolicy ==
    [][ /\ StopStep =>
             /\ hist.saved # NoDoc /\ hist.cleanupRunCalls = tasks_processed
             /\ hist'.stopEvals = hist.cycles
             /\ ctl'.pc \in {"finally", "clear"}
             /\ (ctl'.pc = "finally") <=>
                   \/ hist'.lastFn
                   \/ (max_tasks # 0 /\ tasks_processed = max_tasks)
                   \/ (max_time # NoMaxTime /\ elapsed + avg_time_factor > max_time)
             /\ stop_function = "None" => ~hist'.lastFn
        /\ hist'.stopEvals # hist.stopEvals => StopStep
        /\ (variant = "RunActor" /\ pc # "finally" /\ ctl'.pc = "finally" /\ ctl'.exc = "none")
             => (StopStep \/ (pc = "for" /\ ctl.pos >= cfg.srcLen)) ]_vars

\* The stop_function returned true and ended the loop although no other
\* criterion was supplied and the source had more tasks.
C8_Witness ==
    /\ pc = "finally" /\ ctl.exc = "none" /\ hist.lastFn
    /\ max_tasks = 0 /\ max_time = NoMaxTime /\ ctl.pos < cfg.srcLen

\* C9: whichever way a run ends, cleanup_env has been invoked exactly once.
\* (Stated for the signals handled before run has returned.)
C9_CleanupEnvOnce ==
    (pc \in {"returned", "raised", "exited"} /\ hist.hAt # "returned")
    => hist.cleanupEnvCalls = 1

\* C10: after a store error other than ResourceConflict in the save loop, no
\* further db.save or db.get of the task is made by the loop, cleanup_run is
\* not invoked, tasks_processed is not incremented, no further task is
\* pulled, the error leaves run, and cleanup_env has run when it does.
C10_FatalStoreError ==
    hist.fatalAt # NoFatal =>
        /\ pc \in {"finally", "raised", "exited"}
        /\ hist.nSave = hist.fatalAt.ns
        /\ hist.nGet = hist.fatalAt.ng
        /\ hist.cleanupRunCalls = hist.fatalAt.cr
        /\ tasks_processed = hist.fatalAt.tp
        /\ ctl.pos = hist.fatalAt.pos
        /\ pc \in {"finally", "raised"} => ctl.exc \in {"Conflict", "Other"}
        /\ (pc = "raised" /\ hist.hSaves = 0) => hist.cleanupEnvCalls >= 1

\* The error has left run with cleanup_env run once and a task left in the source.
C10_Witness ==
    /\ pc = "raised" /\ hist.fatalAt # NoFatal /\ hist.cleanupEnvCalls = 1
    /\ ctl.pos < cfg.srcLen /\ hist.hAt = "none"

InCycle == pc \in {"prepare_run", "set_current", "process", "annotate", "save", "get",
                   "cleanup_run"}

\* C11: tasks_processed is 0 at construction and never decreases; it changes
\* only in the step that ends a cycle whose task was persisted and whose
\* cleanup_run ran, by exactly one, whether process_task returned or raised;
\* at every point it is the number of cycles this actor has completed (the
\* cycles started, less the one under way or cut short by an error).
C11_TasksProcessedCounts ==
    /\ tasks_processed = 0
    /\ [][ /\ self'.tasks_processed \in {tasks_processed, tasks_processed + 1}
           /\ (self'.tasks_processed = tasks_processed + 1) <=>
                 (pc = "cleanup_run" /\ hpc = "idle" /\ ctl'.pc \in {"stop", "clear"})
           /\ (self'.tasks_processed = tasks_processed + 1) =>
                 (hist.saved # NoDoc /\ hist.saved = store
                    /\ hist'.cleanupRunCalls = tasks_processed + 1) ]_vars
    /\ [](tasks_processed = hist.cleanupRunCalls)
    /\ [](InCycle => tasks_processed = hist.cycles - 1)
    /\ [](pc \in {"stop", "clear", "for", "returned"} => tasks_processed = hist.cycles)

\* Two cycles are counted, the second one's process_task having raised.
C11_Witness ==
    /\ tasks_processed = 2 /\ hist.cycles = 2 /\ hist.raised /\ pc \in {"stop", "clear"}
    /\ hist.saved.err = 1 /\ hist.hAt = "none"

\* C12: once the handler has been invoked and is over, exit(0) has been
\* reached and SystemExit is what ends the main flow: the run loop is not
\* resumed, whatever the tracked process and the handler's db.save did.
C12_HandlerExits ==
    (hist.hAt # "none" /\ hpc = "idle") => (hist.exitCalled /\ ctl.exc = "SystemExit")

InSaveLoop == pc \in {"save", "get"}

\* C13: the save loop is left for cleanup_run only by a db.save the store
\* accepted (a conflicting save leads to db.get and one more db.save, however
\* many conflicts came before), and once the other writers stop, the loop is
\* left: cleanup_run is reached unless an exception (a store error other than
\* ResourceConflict, SystemExit) ends the cycle.
C13_SaveLoop ==
    /\ [][ /\ (InSaveLoop /\ ctl'.pc = "cleanup_run") =>
                 (pc = "save" /\ hpc = "idle" /\ SaveAccepted(tdoc) /\ store' = Stored(tdoc)
                    /\ hist'.nSave = hist.nConf + 1)
           /\ (pc = "save" /\ hpc = "idle" /\ ~SaveAccepted(tdoc) /\ ctl'.pc # "save") =>
                 (ctl'.pc = "get" \/ ctl'.exc # "none") ]_vars
    /\ (InSaveLoop ~> (pc = "cleanup_run" \/ ctl.exc # "none"))

\* The save loop is left for cleanup_run after as many conflicts as the other
\* writers made writes.
C13_Witness ==
    /\ pc = "cleanup_run" /\ hist.nConf = MaxOtherWrites /\ env.otherWrites = MaxOtherWrites
    /\ hist.hAt = "none" /\ hist.cycles = NTasks

\* C14: current_task is empty before the first cycle, whenever the stop rules
\* are evaluated, while the next task is pulled, and after the loop has ended
\* by exhaustion or by a stop rule.
C14_CurrentTaskScope ==
    ( \/ pc \in {"init", "a_setup", "a_prepare_env", "r_prepare_env", "r_setup", "r_register"}
      \/ pc \in {"stop", "for", "returned"}
      \/ pc = "finally" /\ ctl.exc = "none" )
    => current_task = None

\* C15: the handler asks the tracked process to terminate before it waits,
\* force-kills it only after the wait timed out, and reaches the token reset
\* and its db.save only with no tracked process running: in no state is the
\* reset pair written or saved while the tracked process is running.
C15_HandlerOrder ==
    /\ hpc \in {"h_wait", "h_kill"} => hist.terminated
    /\ hist.killed => hist.terminated
    /\ hpc \in {"h_reset", "h_cleanup"} => subprocess # "running"

\* The handler has written the reset pair after the tracked process ignored
\* terminate() and was killed.
C15_Witness ==
    /\ hpc = "h_cleanup" /\ hist.killed /\ hist.hWrote /\ subprocess = "exited"
    /\ hist.saved.lock = token_reset_values[1]

\* C16: current_task is set to the claimed task after prepare_run and before
\* process_task is invoked: it is empty while prepare_run runs, and while
\* process_task executes on a task, and in the rest of that cycle, current_task
\* is that task, which is what a handler started then finds.
C16_CurrentTaskSet ==
    /\ pc \in {"prepare_run", "set_current"} => current_task = None
    /\ pc \in {"process", "annotate", "save", "get", "cleanup_run"} =>
         (task # None /\ current_task = task)
    /\ (hpc # "idle" /\ hist.hAt = "process") => hist.hCur = task

\* A handler runs on top of process_task of the second task.
C16_Witness ==
    /\ pc = "process" /\ hpc = "h_reset" /\ task = 2 /\ current_task = 2 /\ hist.hCur = 2

BeforeTry == pc \in {"init", "a_setup", "a_prepare_env", "r_prepare_env", "r_setup", "r_register"}

\* C17: in both run variants, from the point where the first task can be
\* pulled to the end of the run, the handler is installed for SIGTERM and for
\* SIGINT and prepare_env has been invoked exactly once: it is never invoked
\* again during the run.
C17_SetupBeforeFirstPull ==
    /\ hist.prepareEnvCalls <= 1
    /\ (pc \in InTry \cup {"finally", "returned"} \/ hist.cycles > 0) =>
         (ctl.handlerInstalled = {"SIGTERM", "SIGINT"} /\ hist.prepareEnvCalls = 1)
    /\ BeforeTry => (ctl.pos = 0 /\ hist.cycles = 0)

\* RunActor.run is about to pull its first task.
C17_Witness ==
    /\ variant = "RunActor" /\ pc = "for" /\ ctl.pos = 0 /\ cfg.srcLen > 0
    /\ hist.prepareEnvCalls = 1 /\ ctl.handlerInstalled = {"SIGTERM", "SIGINT"}

\* C18: with an EndlessViewIterator, RunActor.run has assigned its
\* stop_function and stop_function_args to the iterator's stop_callback and
\* stop_callback_args before the try block is entered and the first task is
\* pulled, so the iterator ends on its callback only when a stop_function was
\* given to run; with any other iterator, and in AbstractRunActor.run, the
\* two attributes are left as they were.
C18_StopRegistered ==
    /\ (variant = "RunActor" /\ cfg.endless
          /\ (pc \in InTry \cup {"finally", "returned"} \/ hist.cycles > 0)) =>
         /\ ctl.stop_callback = stop_function
         /\ ctl.stop_callback_args = "stop_function_args"
    /\ (~cfg.endless \/ variant = "Abstract") =>
         (ctl.stop_callback = Unset /\ ctl.stop_callback_args = Unset)
    /\ hist.sourceStopped => (stop_function = "fn" /\ ctl.stop_callback = "fn")

\* The endless iterator has ended on its stop callback, after a cycle at
\* whose end the same function had returned false to the run loop.
C18_Witness ==
    /\ hist.sourceStopped /\ pc = "finally" /\ hist.cycles = 1 /\ hist.stopEvals = 1
    /\ ~hist.lastFn /\ ctl.pos < cfg.srcLen

\* C19: with the token reset enabled, when the signal was handled after the
\* iterator had claimed and yielded a task and before current_task was set
\* (during prepare_run), the handler has written the reset pair to that task:
\* when the process has ended on exit(0), the task's document carries it.
C19_NoOrphanedTask ==
    ( /\ hist.exitCalled /\ pc = "exited"
      /\ token_reset_values # NoReset
      /\ hist.hAt \in {"prepare_run", "set_current"} )
    => /\ hist.hWrote
       /\ store.lock = token_reset_values[1]
       /\ store.done = token_reset_values[2]

\* C20: in every call of RunActor.run with max_tasks = n > 0, the first one
\* or a later one on the same actor object, at most n cycles are started.
C20_MaxTasksPerCall ==
    (variant = "RunActor" /\ max_tasks > 0) => hist.cycles <= max_tasks

====
